---- MODULE Spec2Model ----
(***************************************************************************)
(* The KPA scaler (pkg/reconciler/autoscaling/kpa/scaler.go): the decision *)
(* that maps a desired scale, the PodAutoscaler (PA), the                   *)
(* ServerlessService (SKS), the config and the activator probe to an       *)
(* effective scale, the re-enqueues and async probes it schedules, and the *)
(* PATCH it applies to the scale target.                                    *)
(*                                                                         *)
(* Durations are whole seconds.  An error value is a string, "nil" being   *)
(* the nil error.  A nullable value is a set with at most one element.     *)
(* The calls a handler makes (enqueueCB, Offer, HTTP GET, PATCH) are       *)
(* returned as sequences and recorded in the variable "call".              *)
(***************************************************************************)
EXTENDS Integers, Sequences, FiniteSets, TLC

VARIABLES
    cfg,        \* the config carried on the invocation context
    pa,         \* the PodAutoscaler snapshot
    sks,        \* the ServerlessService snapshot
    ps,         \* the scale target (PodScalable) as the informer serves it
    keys,       \* the probe manager's set of in-flight probe targets
    campaigns,  \* the probe manager's running campaigns (goroutines)
    call,       \* the record of the operation that has just run
    ab,         \* the applyBounds harness: inputs and successive results
    loop        \* the reconciler's work queue and timers (the reconcile loop)

vars == <<cfg, pa, sks, ps, keys, campaigns, call, ab, loop>>

-----------------------------------------------------------------------------
(* Bounds of the model *)

MaxScale == 2
MaxAge == 2
MaxProxyFor == 1
StableWindowCfg == 2
GracePeriodCfg == 1
ProgressDeadlineCfg == 1
MaxBound == 3

(* Program constants *)

scaleUnknown == -1
probePeriod == 1
probeTimeout == 45
reenqeuePeriod == 1
activationTimeoutBuffer == 10
proxyReenqueuePeriod == 3

probeOptions == "UserAgent=autoscaling;Probe=activator;ExpectsBody=activator;ExpectsStatus=200"

ActivatorName == "activator"

-----------------------------------------------------------------------------
(* PodAutoscaler, ServerlessService and config accessors *)

IsActivating(p) == p.active = "Unknown"

IsReady(p) == p.active = "True"

CanFailActivation(p, timeout) == p.active = "Unknown" /\ p.age >= timeout

ActiveFor(p) == IF p.active = "True" THEN p.age ELSE -1

CanScaleToZero(p, grace) == p.active = "False" /\ p.age >= grace

\* The time the SKS status has reported Proxy; spec.mode, the mode asked for,
\* may be ahead of it.
ProxyFor(s) == s.proxyFor

\* resources.StableWindow: the PA's own window when it has one, else the
\* config's.
StableWindow(p, c) ==
    IF p.window # {} THEN CHOOSE w \in p.window : TRUE ELSE c.StableWindow

ScaleBounds(p) == <<p.min, p.max>>

ServicePort(protocol) == IF protocol = "h2c" THEN 81 ELSE 80

-----------------------------------------------------------------------------
(* The probe target and the synchronous probe *)

paToProbeTarget(p) ==
    [scheme |-> "http", svc |-> p.serviceName, ns |-> p.namespace,
     port |-> ServicePort(p.protocolType), path |-> "/healthz"]

\* prober.Do: one GET; present iff HTTP 200 and the body is the activator's name.
\* A response with code 0 stands for a transport error or a timeout.
proberDo(target, resp) ==
    [present |-> resp.code = 200 /\ resp.body = ActivatorName,
     err     |-> IF resp.code = 0 THEN "probe failed" ELSE "nil",
     gets    |-> <<target>>]

activatorProbeAlwaysProbes(p, resp) == proberDo(paToProbeTarget(p), resp)

activatorProbe(p, resp) ==
    IF p.serviceName = ""
    THEN [present |-> FALSE, err |-> "nil", gets |-> <<>>]
    ELSE proberDo(paToProbeTarget(p), resp)

-----------------------------------------------------------------------------
(* applyBounds *)

applyBoundsNoMin(min, max, x) ==
    IF max # 0 /\ x > max THEN max
    ELSE x

applyBoundsNoUnbounded(min, max, x) ==
    IF x < min THEN min
    ELSE IF x > max THEN max
    ELSE x

applyBounds(min, max, x) ==
    IF x < min THEN min
    ELSE IF max # 0 /\ x > max THEN max
    ELSE x

-----------------------------------------------------------------------------
(* handleScaleToZero: the decision (scale, apply) and the calls it makes *)

Decision(scale, apply, enq, gets, offers) ==
    [scale |-> scale, apply |-> apply, enq |-> enq, gets |-> gets, offers |-> offers]

\* config.FromContext on a context that carries no config gives the nil
\* *Config.
NoConfig == [nil |-> TRUE]

\* cfgs.Autoscaler on the nil *Config: the goroutine panics, the handler
\* returns nothing and makes no further call.
nilConfigPanic ==
    [scale |-> 0, apply |-> FALSE, enq |-> <<>>, gets |-> <<>>, offers |-> <<>>,
     panic |-> "nil pointer dereference"]

Panicked(h) == "panic" \in DOMAIN h

activationTimeoutNoBuffer(c) == c.ProgressDeadline

activationTimeoutOf(c) == c.ProgressDeadline + activationTimeoutBuffer

fastPathEnqueues(desiredScale) ==
    Decision(desiredScale, TRUE, <<reenqeuePeriod>>, <<>>, <<>>)

fastPath(desiredScale) == Decision(desiredScale, TRUE, <<>>, <<>>, <<>>)

scaleToZeroDisabledKeepsZero == Decision(0, TRUE, <<>>, <<>>, <<>>)

scaleToZeroDisabled == Decision(1, TRUE, <<>>, <<>>, <<>>)

activatingWaitNoEnqueue(activationTimeout) ==
    Decision(scaleUnknown, FALSE, <<>>, <<>>, <<>>)

activatingWait(activationTimeout) ==
    Decision(scaleUnknown, FALSE, <<activationTimeout>>, <<>>, <<>>)

activationFailedKeepsWaiting(desiredScale) ==
    Decision(scaleUnknown, FALSE, <<>>, <<>>, <<>>)

activationFailed(desiredScale) == Decision(desiredScale, TRUE, <<>>, <<>>, <<>>)

handleActivating(c, p, desiredScale) ==
    LET activationTimeout == activationTimeoutOf(c) IN
    IF CanFailActivation(p, activationTimeout)
    THEN activationFailed(desiredScale)
    ELSE activatingWait(activationTimeout)

deactivateApplies(s, desiredScale) ==
    Decision(desiredScale, TRUE,
             IF s.mode = "Proxy" THEN <<proxyReenqueuePeriod>> ELSE <<>>,
             <<>>, <<>>)

deactivateAlwaysEnqueues(s, desiredScale) ==
    Decision(desiredScale, FALSE, <<proxyReenqueuePeriod>>, <<>>, <<>>)

deactivate(s, desiredScale) ==
    Decision(desiredScale, FALSE,
             IF s.mode = "Proxy" THEN <<proxyReenqueuePeriod>> ELSE <<>>,
             <<>>, <<>>)

windowElapsedStrictly(af, sw) == af > sw

windowElapsed(af, sw) == af >= sw

cooldownShortDelay(sw, af) == Decision(1, TRUE, <<reenqeuePeriod>>, <<>>, <<>>)

cooldownKeepsZero(sw, af) == Decision(0, TRUE, <<sw - af>>, <<>>, <<>>)

cooldown(sw, af) == Decision(1, TRUE, <<sw - af>>, <<>>, <<>>)

handleActive(c, p, s, desiredScale) ==
    LET sw == StableWindow(p, c)
        af == ActiveFor(p)
    IN  IF windowElapsed(af, sw)
        THEN deactivate(s, desiredScale)
        ELSE cooldown(sw, af)

\* The campaign's parent context is context.Background().
offerArgs(p) ==
    [ctx |-> "Background", target |-> paToProbeTarget(p), arg |-> p.name,
     period |-> probePeriod, timeout |-> probeTimeout, opts |-> probeOptions]

startAsyncProbeApplies(p, desiredScale, gets) ==
    Decision(desiredScale, TRUE, <<>>, gets, <<>>)

startAsyncProbe(p, desiredScale, gets) ==
    Decision(desiredScale, FALSE, <<>>, gets, <<offerArgs(p)>>)

scaleToZeroNowWaits(desiredScale, gets) ==
    Decision(desiredScale, FALSE, <<>>, gets, <<>>)

scaleToZeroNow(desiredScale, gets) ==
    Decision(desiredScale, TRUE, <<>>, gets, <<>>)

remainingGraceIgnoresProxy(grace, pf) == grace

remainingGrace(grace, pf) == grace - pf

graceWaitNoEnqueue(desiredScale, to, gets) ==
    Decision(desiredScale, FALSE, <<>>, gets, <<>>)

graceWait(desiredScale, to, gets) ==
    Decision(desiredScale, FALSE, <<to>>, gets, <<>>)

handleInactive(c, p, s, desiredScale, resp) ==
    LET r == activatorProbe(p, resp) IN
    IF r.present
    THEN IF CanScaleToZero(p, c.ScaleToZeroGracePeriod)
         THEN scaleToZeroNow(desiredScale, r.gets)
         ELSE LET pf == ProxyFor(s)
                  to == remainingGrace(c.ScaleToZeroGracePeriod, pf)
              IN  IF to <= 0
                  THEN scaleToZeroNow(desiredScale, r.gets)
                  ELSE graceWait(desiredScale, to, r.gets)
    ELSE startAsyncProbe(p, desiredScale, r.gets)

handleScaleToZero(c, p, s, desiredScale, resp) ==
    IF desiredScale # 0 THEN fastPath(desiredScale)
    ELSE IF c = NoConfig THEN nilConfigPanic
    ELSE IF ~c.EnableScaleToZero THEN scaleToZeroDisabled
    ELSE IF IsActivating(p) THEN handleActivating(c, p, desiredScale)
    ELSE IF IsReady(p) THEN handleActive(c, p, s, desiredScale)
    ELSE handleInactive(c, p, s, desiredScale, resp)

-----------------------------------------------------------------------------
(* The scale target, applyScale and scale *)

\* resources.GetScaleResource: the target from the informer's cache.
GetScaleResource(p, t) ==
    IF p.refValid /\ t.found THEN [err |-> "nil", ps |-> t]
    ELSE [err |-> "failed to get scale target", ps |-> t]

\* resources.ScaleResourceArguments: parses the scaleTargetRef.
ScaleResourceArguments(p) ==
    IF p.refValid THEN "nil" ELSE "invalid scaleTargetRef"

\* duck.CreatePatch: the JSON patch that turns the object t into tNew, one
\* operation per field that differs (add for a field t lacks).
CreatePatch(t, tNew) ==
    IF tNew.replicas = t.replicas THEN <<>>
    ELSE <<[op |-> IF t.replicas = {} THEN "add" ELSE "replace",
            path |-> "/spec/replicas",
            value |-> CHOOSE n \in tNew.replicas : TRUE]>>

\* The API server applies a JSON patch to the target.
ApplyPatch(t, doc) ==
    IF doc = <<>> THEN t ELSE [t EXCEPT !.replicas = {doc[1].value}]

applyScaleSwallowsError(p, desiredScale, t, patchOK) ==
    LET psNew == [t EXCEPT !.replicas = {desiredScale}] IN
    IF ScaleResourceArguments(p) # "nil"
    THEN [err |-> ScaleResourceArguments(p), patches |-> <<>>, doc |-> <<>>,
          cached |-> t]
    ELSE [err |-> "nil", patches |-> <<desiredScale>>,
          doc |-> CreatePatch(t, psNew), cached |-> t]

applyScaleInPlace(p, desiredScale, t, patchOK) ==
    LET psNew == [t EXCEPT !.replicas = {desiredScale}] IN
    IF ScaleResourceArguments(p) # "nil"
    THEN [err |-> ScaleResourceArguments(p), patches |-> <<>>, doc |-> <<>>,
          cached |-> t]
    ELSE [err |-> IF patchOK THEN "nil" ELSE "failed to apply scale",
          patches |-> <<desiredScale>>, doc |-> CreatePatch(psNew, psNew),
          cached |-> psNew]

applyScaleSkipsWhenEqual(p, desiredScale, t, patchOK) ==
    LET psNew == [t EXCEPT !.replicas = {desiredScale}] IN
    IF ScaleResourceArguments(p) # "nil"
    THEN [err |-> ScaleResourceArguments(p), patches |-> <<>>, doc |-> <<>>,
          cached |-> t]
    ELSE IF CreatePatch(t, psNew) = <<>>
    THEN [err |-> "nil", patches |-> <<>>, doc |-> <<>>, cached |-> t]
    ELSE [err |-> IF patchOK THEN "nil" ELSE "failed to apply scale",
          patches |-> <<desiredScale>>, doc |-> CreatePatch(t, psNew),
          cached |-> t]

\* The replica count is set on psNew, a deep copy: "cached", the informer's
\* object t as the call leaves it, is t.  "patches" lists the PATCH requests
\* submitted, each by the replica count it asks for; "doc" is the JSON patch
\* the request carries.
applyScale(p, desiredScale, t, patchOK) ==
    LET psNew == [t EXCEPT !.replicas = {desiredScale}] IN
    IF ScaleResourceArguments(p) # "nil"
    THEN [err |-> ScaleResourceArguments(p), patches |-> <<>>, doc |-> <<>>,
          cached |-> t]
    ELSE [err |-> IF patchOK THEN "nil" ELSE "failed to apply scale",
          patches |-> <<desiredScale>>, doc |-> CreatePatch(t, psNew),
          cached |-> t]

metricsNotReadyNever(p, desiredScale) == FALSE

metricsNotReadyAnyPA(p, desiredScale) == desiredScale < 0

metricsNotReady(p, desiredScale) == desiredScale < 0 /\ ~IsActivating(p)

stopsWhenNoApplyNever(h) == FALSE

stopsWhenNoApply(h) == ~h.apply

currentScaleNilIsZero(t) ==
    IF t.replicas # {} THEN CHOOSE n \in t.replicas : TRUE ELSE 0

currentScaleOf(t) ==
    IF t.replicas # {} THEN CHOOSE n \in t.replicas : TRUE ELSE 1

alreadyAtScaleNever(desiredScale, currentScale) == FALSE

alreadyAtScale(desiredScale, currentScale) == desiredScale = currentScale

getFailedNever(g) == FALSE

getFailed(g) == g.err # "nil"

ScaleResult(ret, err, newScale, apply, h, fetched, current, patches) ==
    [ret |-> ret, err |-> err, newScale |-> newScale, apply |-> apply,
     enq |-> h.enq, gets |-> h.gets, offers |-> h.offers,
     fetched |-> fetched, current |-> current, patches |-> patches,
     mutated |-> {}]

NoCalls == Decision(0, FALSE, <<>>, <<>>, <<>>)

scale(c, p, s, t, desiredScale, resp, patchOK) ==
    IF metricsNotReady(p, desiredScale)
    THEN ScaleResult(desiredScale, "nil", {}, {}, NoCalls, FALSE, {}, <<>>)
    ELSE
    LET min == ScaleBounds(p)[1]
        max == ScaleBounds(p)[2]
        newScale == applyBounds(min, max, desiredScale)
        h == handleScaleToZero(c, p, s, newScale, resp)
    IN  IF Panicked(h)
        THEN ScaleResult(scaleUnknown, "panic", {newScale}, {}, h, FALSE, {}, <<>>)
        ELSE IF stopsWhenNoApply(h)
        THEN ScaleResult(h.scale, "nil", {newScale}, {h.apply}, h, FALSE, {}, <<>>)
        ELSE
        LET g == GetScaleResource(p, t) IN
        IF getFailed(g)
        THEN ScaleResult(h.scale, g.err, {newScale}, {h.apply}, h, TRUE, {}, <<>>)
        ELSE
        LET currentScale == currentScaleOf(g.ps) IN
        IF alreadyAtScale(h.scale, currentScale)
        THEN ScaleResult(h.scale, "nil", {newScale}, {h.apply}, h, TRUE,
                         {currentScale}, <<>>)
        ELSE
        LET a == applyScale(p, h.scale, g.ps, patchOK) IN
        [ScaleResult(h.scale, a.err, {newScale}, {h.apply}, h, TRUE,
                     {currentScale}, a.patches)
            EXCEPT !.mutated = IF a.cached = g.ps THEN {} ELSE {a.cached}]

-----------------------------------------------------------------------------
(* The async probe manager and the callback newScaler gives it *)

OfferAdmitsAlways(ks, target) == TRUE

\* Manager.Offer admits a target that has no probe in flight.
OfferAdmits(ks, target) == target \notin ks

Offer(ks, cs, o) ==
    IF OfferAdmits(ks, o.target)
    THEN [ret |-> TRUE, keys |-> ks \cup {o.target},
          campaigns |-> Append(cs, [ctx |-> o.ctx, cancelled |-> FALSE,
                                    target |-> o.target, arg |-> o.arg,
                                    period |-> o.period, timeout |-> o.timeout,
                                    opts |-> o.opts, phase |-> "polling"])]
    ELSE [ret |-> FALSE, keys |-> ks, campaigns |-> cs]

SuppressedNever(c) == FALSE

\* A campaign whose parent context is cancelled stops probing and does not
\* call back.
Suppressed(c) == c.cancelled

probeCallbackOnSuccessOnly(arg, success, err) ==
    [arg |-> arg, enq |-> IF success THEN <<reenqeuePeriod>> ELSE <<>>]

probeCallback(arg, success, err) ==
    [arg |-> arg, enq |-> <<reenqeuePeriod>>]

RemoveAt(seq, i) ==
    [j \in 1..(Len(seq) - 1) |-> IF j < i THEN seq[j] ELSE seq[j + 1]]

-----------------------------------------------------------------------------
(* The values the environment hands to the scaler *)

Configs ==
    [EnableScaleToZero : BOOLEAN, StableWindow : {StableWindowCfg},
     ScaleToZeroGracePeriod : {GracePeriodCfg},
     ProgressDeadline : {ProgressDeadlineCfg}]

PABounds == {<<0, 0>>, <<1, 1>>, <<0, 1>>}

ActivatingAges ==
    LET t == ProgressDeadlineCfg + activationTimeoutBuffer
    IN  (t - 1)..t

PAStatuses ==
    {<<"Unknown", a>> : a \in ActivatingAges}
        \cup {<<st, a>> : st \in {"True", "False"}, a \in 0..MaxAge}

PAs ==
    {[name |-> "pa", namespace |-> "ns", protocolType |-> "http1",
      refValid |-> TRUE, window |-> {}, min |-> b[1], max |-> b[2],
      serviceName |-> svc, active |-> st[1], age |-> st[2]] :
        b \in PABounds, svc \in {"", "svc"}, st \in PAStatuses}

SKSs == [mode : {"Serve", "Proxy"}, proxyFor : 0..MaxProxyFor]

Targets ==
    {[found |-> FALSE, replicas |-> {}]}
        \cup {[found |-> TRUE, replicas |-> r] :
                 r \in {{}} \cup {{n} : n \in 0..MaxScale}}

Responses ==
    {[code |-> 200, body |-> ActivatorName], [code |-> 200, body |-> "other"],
     [code |-> 503, body |-> ""], [code |-> 0, body |-> ""]}

NoResponse == [code |-> 0, body |-> ""]

DesiredScales == (-1)..MaxScale

NoCall == [kind |-> "none"]

BoundsIdle == [min |-> 0, max |-> 0, x |-> 0, out |-> <<>>]

\* The reconcile loop at rest: no key queued, no timer pending.
LoopIdle ==
    [desired |-> 0, watch |-> FALSE, probeUp |-> FALSE, queued |-> FALSE,
     timers |-> {}]

-----------------------------------------------------------------------------
(* The state machine *)

Init ==
    /\ cfg \in Configs
    /\ pa \in PAs
    /\ sks \in SKSs
    /\ ps \in Targets
    /\ keys = {}
    /\ campaigns = <<>>
    /\ call = NoCall
    /\ ab = BoundsIdle
    /\ loop = LoopIdle

\* One invocation of scale: what it returns, the calls it makes and what
\* they do to the target and to the probe manager.
invoke(desiredScale) ==
    LET dry == scale(cfg, pa, sks, ps, desiredScale, NoResponse, TRUE) IN
    \E resp \in IF dry.gets # <<>> THEN Responses ELSE {NoResponse} :
      LET try == scale(cfg, pa, sks, ps, desiredScale, resp, TRUE) IN
      \E patchOK \in IF try.patches # <<>> THEN BOOLEAN ELSE {TRUE} :
        LET r == scale(cfg, pa, sks, ps, desiredScale, resp, patchOK)
            o == IF r.offers # <<>>
                 THEN Offer(keys, campaigns, r.offers[1])
                 ELSE [ret |-> FALSE, keys |-> keys, campaigns |-> campaigns]
        IN  /\ call' = [kind |-> "scale",
                        desired |-> desiredScale,
                        resp |-> IF r.gets # <<>> THEN {resp} ELSE {},
                        offerRets |-> IF r.offers # <<>> THEN <<o.ret>> ELSE <<>>,
                        ret |-> r.ret, err |-> r.err, newScale |-> r.newScale,
                        apply |-> r.apply, enq |-> r.enq, gets |-> r.gets,
                        offers |-> r.offers, fetched |-> r.fetched,
                        current |-> r.current, patches |-> r.patches,
                        patchOK |-> IF r.patches # <<>> THEN {patchOK} ELSE {}]
            /\ ps' = IF r.patches # <<>> /\ patchOK
                     THEN [ps EXCEPT !.replicas = {r.patches[1]}]
                     ELSE IF r.mutated # {} THEN CHOOSE m \in r.mutated : TRUE
                     ELSE ps
            /\ keys' = o.keys
            /\ campaigns' = o.campaigns

\* One invocation of scale by the reconciler.
Scale(desiredScale) ==
    /\ invoke(desiredScale)
    /\ UNCHANGED <<cfg, pa, sks, ab, loop>>

\* The reconciler is done with the operation's result; the snapshots it hands
\* to the next invocation may change only between invocations.
Return ==
    /\ call # NoCall
    /\ call' = NoCall
    /\ UNCHANGED <<cfg, pa, sks, ps, keys, campaigns, ab, loop>>

\* The PA reconciler or the passage of time changes the PA's Active condition.
PAStatusUpdate ==
    \E st \in PAStatuses :
        /\ call = NoCall
        /\ <<pa.active, pa.age>> # st
        /\ pa' = [pa EXCEPT !.active = st[1], !.age = st[2]]
        /\ UNCHANGED <<cfg, sks, ps, keys, campaigns, call, ab, loop>>

\* The SKS reconciler changes the SKS.
SKSUpdate ==
    \E s \in SKSs :
        /\ call = NoCall
        /\ s # sks
        /\ sks' = s
        /\ UNCHANGED <<cfg, pa, ps, keys, campaigns, call, ab, loop>>

\* The target appears in, changes in or leaves the informer's cache.
TargetUpdate ==
    \E t \in Targets :
        /\ call = NoCall
        /\ t # ps
        /\ ps' = t
        /\ UNCHANGED <<cfg, pa, sks, keys, campaigns, call, ab, loop>>

\* Another caller offers the PA's probe target to the probe manager.
ConcurrentOffer ==
    LET o == Offer(keys, campaigns, offerArgs(pa)) IN
        /\ call' = [kind |-> "offer", target |-> paToProbeTarget(pa),
                    before |-> keys, ret |-> o.ret]
        /\ keys' = o.keys
        /\ campaigns' = o.campaigns
        /\ UNCHANGED <<cfg, pa, sks, ps, ab, loop>>

\* A campaign ends, by a successful probe or by its timeout, and calls back.
finish(i) ==
    /\ campaigns[i].phase = "polling"
    /\ ~Suppressed(campaigns[i])
    /\ \E success \in BOOLEAN :
         LET err == IF success THEN "nil" ELSE "timed out"
             cb == probeCallback(campaigns[i].arg, success, err)
         IN  call' = [kind |-> "cb", target |-> campaigns[i].target,
                      arg |-> cb.arg, success |-> success, err |-> err,
                      enq |-> cb.enq]
    /\ campaigns' = [campaigns EXCEPT ![i].phase = "called"]

ProbeDone(i) ==
    /\ finish(i)
    /\ UNCHANGED <<cfg, pa, sks, ps, keys, ab, loop>>

\* The campaign's goroutine removes its target from the in-flight set.
ProbeCleanup(i) ==
    /\ \/ campaigns[i].phase = "called"
       \/ campaigns[i].phase = "polling" /\ Suppressed(campaigns[i])
    /\ keys' = keys \ {campaigns[i].target}
    /\ campaigns' = RemoveAt(campaigns, i)
    /\ UNCHANGED <<cfg, pa, sks, ps, call, ab, loop>>

Next ==
    \/ \E d \in DesiredScales : Scale(d)
    \/ Return
    \/ PAStatusUpdate
    \/ SKSUpdate
    \/ TargetUpdate
    \/ ConcurrentOffer
    \/ \E i \in DOMAIN campaigns : ProbeDone(i)
    \/ \E i \in DOMAIN campaigns : ProbeCleanup(i)

Spec == Init /\ [][Next]_vars

\* The probe manager polls until success or until the timeout, which the
\* passage of time brings about: a polling campaign ends.
FairSpec == Spec /\ WF_vars(\E i \in DOMAIN campaigns : ProbeDone(i))

-----------------------------------------------------------------------------
(* The reconcile loop around scale, with time.  The key of the PA is       *)
(* queued (loop.queued) by a due timer of enqueueCB and, when loop.watch   *)
(* holds, by a change of the PA or of the SKS; the reconciler invokes      *)
(* scale with the autoscaler's steady desired scale for a queued key and   *)
(* marks an Active PA Inactive when scale returns (0, false).  The SKS     *)
(* reconciler puts the SKS of an Inactive PA in Proxy mode, after which    *)
(* the activator starts to answer the probe.  The target is in the cache   *)
(* and the API server accepts its PATCH.  An age saturates above every     *)
(* threshold the scaler compares it with: the activation timeout for an    *)
(* Activating PA, the stable window and the grace period otherwise.        *)

ActivatingAgeCap == ProgressDeadlineCfg + activationTimeoutBuffer + 1

SettledAgeCap == StableWindowCfg + GracePeriodCfg

Older(n, cap) == IF n < cap THEN n + 1 ELSE n

SeqToSet(q) == {q[i] : i \in DOMAIN q}

ActivatorAnswer == [code |-> 200, body |-> ActivatorName]

NoActivatorAnswer == [code |-> 503, body |-> ""]

InitLive ==
    /\ cfg = [EnableScaleToZero |-> TRUE, StableWindow |-> StableWindowCfg,
              ScaleToZeroGracePeriod |-> GracePeriodCfg,
              ProgressDeadline |-> ProgressDeadlineCfg]
    /\ pa \in {q \in PAs : q.min = 0 /\ q.max = 1 /\ q.serviceName # ""}
    /\ sks \in {k \in SKSs : k.proxyFor = 0}
    /\ ps \in {t \in Targets : t.found /\ t.replicas \in {{}, {MaxScale}}}
    /\ keys = {}
    /\ campaigns = <<>>
    /\ call = NoCall
    /\ ab = BoundsIdle
    /\ loop \in [desired : {0, MaxScale}, watch : BOOLEAN, probeUp : BOOLEAN,
                  queued : {TRUE}, timers : {{}}]
    /\ loop.probeUp => sks.mode = "Proxy"

\* The reconciler takes the queued key and invokes scale.
LiveReconcile ==
    /\ loop.queued
    /\ invoke(loop.desired)
    /\ call'.resp # {} =>
          call'.resp = {IF loop.probeUp THEN ActivatorAnswer ELSE NoActivatorAnswer}
    /\ call'.patchOK # {FALSE}
    /\ pa' = IF call'.ret = 0 /\ call'.apply = {FALSE} /\ IsReady(pa)
             THEN [pa EXCEPT !.active = "False", !.age = 0]
             ELSE pa
    /\ loop' = [loop EXCEPT !.queued = loop.watch /\ pa' # pa,
                            !.timers = @ \cup SeqToSet(call'.enq)]
    /\ UNCHANGED <<cfg, sks, ab>>

\* A timer of enqueueCB is due: the key is queued.
LiveFire ==
    /\ 0 \in loop.timers
    /\ loop' = [loop EXCEPT !.queued = TRUE, !.timers = @ \ {0}]
    /\ call' = NoCall
    /\ UNCHANGED <<cfg, pa, sks, ps, keys, campaigns, ab>>

\* A second passes.  Within the second a queued key is reconciled, a due
\* timer fires and a finished campaign leaves the in-flight set.
LiveTick ==
    /\ ~loop.queued
    /\ 0 \notin loop.timers
    /\ \A i \in DOMAIN campaigns : campaigns[i].phase # "called"
    /\ pa' = [pa EXCEPT !.age = Older(@, IF IsActivating(pa) THEN ActivatingAgeCap
                                         ELSE SettledAgeCap)]
    /\ sks' = IF sks.mode = "Proxy"
              THEN [sks EXCEPT !.proxyFor = Older(@, SettledAgeCap)]
              ELSE sks
    /\ loop' = [loop EXCEPT !.timers = {t - 1 : t \in @}]
    /\ call' = NoCall
    /\ UNCHANGED <<cfg, ps, keys, campaigns, ab>>

\* The SKS reconciler puts the SKS of an Inactive PA in Proxy mode.
LiveProxy ==
    /\ pa.active = "False"
    /\ sks.mode = "Serve"
    /\ sks' = [mode |-> "Proxy", proxyFor |-> 0]
    /\ loop' = [loop EXCEPT !.queued = @ \/ loop.watch]
    /\ call' = NoCall
    /\ UNCHANGED <<cfg, pa, ps, keys, campaigns, ab>>

\* The activator, in the data path of a Proxy SKS, starts to answer.
LiveActivatorUp ==
    /\ sks.mode = "Proxy"
    /\ ~loop.probeUp
    /\ loop' = [loop EXCEPT !.probeUp = TRUE]
    /\ call' = NoCall
    /\ UNCHANGED <<cfg, pa, sks, ps, keys, campaigns, ab>>

\* A campaign ends: by a successful probe once the activator answers, by its
\* timeout before; its callback's enqueueCB call starts a timer.
LiveProbeDone(i) ==
    /\ finish(i)
    /\ call'.success = loop.probeUp
    /\ loop' = [loop EXCEPT !.timers = @ \cup SeqToSet(call'.enq)]
    /\ UNCHANGED <<cfg, pa, sks, ps, keys, ab>>

NextLive ==
    \/ LiveReconcile
    \/ LiveFire
    \/ LiveTick
    \/ LiveProxy
    \/ LiveActivatorUp
    \/ \E i \in DOMAIN campaigns : LiveProbeDone(i)
    \/ \E i \in DOMAIN campaigns : ProbeCleanup(i)

LiveSpec ==
    /\ InitLive /\ [][NextLive]_vars
    /\ WF_vars(LiveReconcile)
    /\ WF_vars(LiveFire)
    /\ WF_vars(LiveTick)
    /\ WF_vars(LiveProxy)
    /\ WF_vars(LiveActivatorUp)
    /\ WF_vars(\E i \in DOMAIN campaigns : LiveProbeDone(i))
    /\ WF_vars(\E i \in DOMAIN campaigns : ProbeCleanup(i))

-----------------------------------------------------------------------------
(* The same machine for every pair of valid scale bounds: 0 <= min, and    *)
(* max = 0 (no upper bound) or min <= max.                                  *)

WideBounds ==
    {b \in (0..MaxScale) \X (0..MaxScale) : b[2] = 0 \/ b[1] <= b[2]}

InitWide ==
    /\ cfg \in Configs
    /\ pa \in {[p EXCEPT !.min = b[1], !.max = b[2]] :
                  p \in {q \in PAs : q.serviceName # "" /\ q.max = 0},
                  b \in WideBounds}
    /\ sks = [mode |-> "Proxy", proxyFor |-> MaxProxyFor]
    /\ ps \in {t \in Targets : t.found}
    /\ keys = {}
    /\ campaigns = <<>>
    /\ call = NoCall
    /\ ab = BoundsIdle
    /\ loop = LoopIdle

NextWide ==
    \/ \E d \in DesiredScales : Scale(d)
    \/ Return
    \/ PAStatusUpdate

SpecWide == InitWide /\ [][NextWide]_vars

-----------------------------------------------------------------------------
(* applyScale on its own.  ApplyDirect calls applyScale with the target as *)
(* the informer holds it and any replica count, as scale does in its last  *)
(* step but without scale's comparison before it.                          *)

ApplyScales == 0..MaxScale

InitApply ==
    /\ cfg \in {c \in Configs : c.EnableScaleToZero}
    /\ pa \in {[p EXCEPT !.refValid = v] :
                  p \in {q \in PAs : q.serviceName # "" /\ q.max = 0},
                  v \in BOOLEAN}
    /\ sks = [mode |-> "Serve", proxyFor |-> 0]
    /\ ps \in {t \in Targets : t.found}
    /\ keys = {}
    /\ campaigns = <<>>
    /\ call = NoCall
    /\ ab = BoundsIdle
    /\ loop = LoopIdle

ApplyDirect(desiredScale) ==
    \E patchOK \in BOOLEAN :
        LET a == applyScale(pa, desiredScale, ps, patchOK) IN
        /\ call = NoCall
        /\ a.patches = <<>> => patchOK
        /\ call' = [kind |-> "applyScale", desired |-> desiredScale,
                    ps |-> ps, err |-> a.err, patches |-> a.patches,
                    doc |-> a.doc,
                    patchOK |-> IF a.patches # <<>> THEN {patchOK} ELSE {}]
        /\ ps' = IF a.patches # <<>> /\ patchOK THEN ApplyPatch(ps, a.doc)
                 ELSE a.cached
        /\ UNCHANGED <<cfg, pa, sks, keys, campaigns, ab, loop>>

NextApply ==
    \/ \E d \in ApplyScales : ApplyDirect(d)
    \/ \E d \in DesiredScales : Scale(d)
    \/ Return
    \/ TargetUpdate

SpecApply == InitApply /\ [][NextApply]_vars

-----------------------------------------------------------------------------
(* Cancellation.  The scaler starts its campaigns under                    *)
(* context.Background(), which nobody can cancel; CallerOffer is a caller  *)
(* of the same probe manager that offers the target under a context of its *)
(* own, which CancelCaller cancels.                                        *)

InitCancel ==
    /\ cfg \in {c \in Configs : c.EnableScaleToZero}
    /\ pa \in {q \in PAs : q.active = "False" /\ q.min = 0}
    /\ sks \in SKSs
    /\ ps \in {t \in Targets : t.found}
    /\ keys = {}
    /\ campaigns = <<>>
    /\ call = NoCall
    /\ ab = BoundsIdle
    /\ loop = LoopIdle

CallerOffer ==
    LET o == Offer(keys, campaigns, [offerArgs(pa) EXCEPT !.ctx = "caller"]) IN
        /\ call' = [kind |-> "offer", target |-> paToProbeTarget(pa),
                    before |-> keys, ret |-> o.ret]
        /\ keys' = o.keys
        /\ campaigns' = o.campaigns
        /\ UNCHANGED <<cfg, pa, sks, ps, ab, loop>>

\* The caller cancels its context: every campaign under it is cancelled.
CancelCaller ==
    /\ \E i \in DOMAIN campaigns :
          campaigns[i].ctx = "caller" /\ ~campaigns[i].cancelled
    /\ campaigns' = [i \in DOMAIN campaigns |->
                       IF campaigns[i].ctx = "caller"
                       THEN [campaigns[i] EXCEPT !.cancelled = TRUE]
                       ELSE campaigns[i]]
    /\ call' = [kind |-> "cancel", ctx |-> "caller"]
    /\ UNCHANGED <<cfg, pa, sks, ps, keys, ab, loop>>

NextCancel ==
    \/ Scale(0)
    \/ Return
    \/ CallerOffer
    \/ CancelCaller
    \/ \E i \in DOMAIN campaigns : ProbeDone(i)
    \/ \E i \in DOMAIN campaigns : ProbeCleanup(i)

SpecCancel == InitCancel /\ [][NextCancel]_vars

-----------------------------------------------------------------------------
(* The same machine started from the uncommon inputs: a context that       *)
(* carries no config, a scaleTargetRef that does not parse, a PA with its  *)
(* own stable window, a grace period longer than a second.                 *)

ConfigsEdge ==
    {NoConfig}
        \cup {c \in Configs : c.EnableScaleToZero}
        \cup {[c EXCEPT !.ScaleToZeroGracePeriod = GracePeriodCfg + 1] :
                 c \in {k \in Configs : k.EnableScaleToZero}}

WindowOverride == StableWindowCfg - 1

PAsEdge ==
    {[p EXCEPT !.refValid = v[1], !.window = v[2]] :
        p \in {q \in PAs : q.serviceName # "" /\ q.max = 0},
        v \in {<<FALSE, {}>>, <<TRUE, {}>>, <<TRUE, {WindowOverride}>>}}

InitEdge ==
    /\ cfg \in ConfigsEdge
    /\ pa \in PAsEdge
    /\ sks \in SKSs
    /\ ps \in Targets
    /\ keys = {}
    /\ campaigns = <<>>
    /\ call = NoCall
    /\ ab = BoundsIdle
    /\ loop = LoopIdle

SpecEdge == InitEdge /\ [][Next]_vars

-----------------------------------------------------------------------------
(* applyBounds on its own: the inputs are drawn in InitBounds, ClampStep    *)
(* applies applyBounds to the input and then to its own result.            *)

BoundsInputs ==
    [min : 0..MaxBound, max : 0..MaxBound, x : (-1)..(MaxBound + 1), out : {<<>>}]

InitBounds ==
    /\ cfg = [EnableScaleToZero |-> TRUE, StableWindow |-> StableWindowCfg,
              ScaleToZeroGracePeriod |-> GracePeriodCfg,
              ProgressDeadline |-> ProgressDeadlineCfg]
    /\ pa = [name |-> "pa", namespace |-> "ns", protocolType |-> "http1",
             refValid |-> TRUE, window |-> {}, min |-> 0, max |-> 0,
             serviceName |-> "svc", active |-> "True", age |-> 0]
    /\ sks = [mode |-> "Serve", proxyFor |-> 0]
    /\ ps = [found |-> TRUE, replicas |-> {}]
    /\ keys = {}
    /\ campaigns = <<>>
    /\ call = NoCall
    /\ ab \in BoundsInputs
    /\ loop = LoopIdle

ClampStep ==
    /\ Len(ab.out) < 2
    /\ ab' = [ab EXCEPT !.out =
                Append(@, applyBounds(ab.min, ab.max,
                                      IF ab.out = <<>> THEN ab.x
                                      ELSE ab.out[Len(ab.out)]))]
    /\ UNCHANGED <<cfg, pa, sks, ps, keys, campaigns, call, loop>>

NextBounds == ClampStep

SpecBounds == InitBounds /\ [][NextBounds]_vars

-----------------------------------------------------------------------------
(* Helpers of the properties *)

IsScaleCall == call.kind = "scale"

RespOf(c) == IF c.resp = {} THEN NoResponse ELSE CHOOSE r \in c.resp : TRUE

TheOne(S) == CHOOSE n \in S : TRUE

\* The sync probe of the recorded invocation did not report the activator.
ProbeNotPresent(c) ==
    \/ c.resp = {}
    \/ ~(RespOf(c).code = 200 /\ RespOf(c).body = "activator")

\* What a second invocation with the recorded inputs does in this state.
SecondCall(patchOK) ==
    scale(cfg, pa, sks, ps, call.desired, RespOf(call), patchOK)

Successes(r) == IF r.patches # <<>> /\ r.err = "nil" THEN 1 ELSE 0

-----------------------------------------------------------------------------
(* Properties *)

\* C1 (zero-gating): with enableScaleToZero false no invocation of scale
\* returns 0 or patches the target to 0; a desired scale that clamps to 0 is
\* lifted to 1 and applied (the target is fetched and, unless it is already at
\* 1, patched to 1).
C1_ZeroGating ==
    (IsScaleCall /\ ~cfg.EnableScaleToZero) =>
        /\ call.ret # 0
        /\ \A i \in DOMAIN call.patches : call.patches[i] # 0
        /\ ps.replicas # {0} \/ call.patches = <<>> \/ call.err # "nil"
        /\ call.newScale = {0} =>
              /\ call.ret = 1
              /\ call.apply = {TRUE}
              /\ call.fetched
              /\ call.enq = <<>> /\ call.offers = <<>> /\ call.gets = <<>>
              /\ call.current # {} =>
                    IF call.current = {1} THEN call.patches = <<>>
                    ELSE call.patches = <<1>>

C1_Witness ==
    /\ IsScaleCall /\ ~cfg.EnableScaleToZero
    /\ pa.active = "Unknown" /\ call.desired < 0
    /\ call.newScale = {0} /\ call.ret = 1
    /\ call.patches = <<1>> /\ call.err = "nil" /\ ps.replicas = {1}

\* C2 (no-apply safety): when handleScaleToZero returns shouldApply = false,
\* scale returns the decided value with a nil error, does not fetch the scale
\* target and issues no PATCH.
C2_NoApplySafety ==
    (IsScaleCall /\ call.apply = {FALSE}) =>
        /\ call.ret = handleScaleToZero(cfg, pa, sks, TheOne(call.newScale),
                                        RespOf(call)).scale
        /\ call.err = "nil"
        /\ ~call.fetched
        /\ call.current = {}
        /\ call.patches = <<>>

C2_Witness ==
    /\ IsScaleCall /\ call.apply = {FALSE}
    /\ call.offers # <<>> /\ call.ret = 0 /\ ps.found /\ ps.replicas = {2}

\* C3 as claimed (re-enqueue completeness): every invocation in which
\* handleScaleToZero returns shouldApply = false calls enqueueCB or Offer.
C3_EveryNoApplyRequeues ==
    (IsScaleCall /\ call.apply = {FALSE}) =>
        (call.enq # <<>> \/ call.offers # <<>>)

\* C3 as amended: every invocation in which handleScaleToZero returns
\* shouldApply = false calls enqueueCB or Offer, except for an Active PA whose
\* stable window has elapsed while the SKS is not in Proxy mode, where it calls
\* neither.
C3_NoApplyRequeuesUnlessServing ==
    (IsScaleCall /\ call.apply = {FALSE}) =>
        LET serving == /\ pa.active = "True"
                       /\ pa.age >= cfg.StableWindow
                       /\ sks.mode # "Proxy"
        IN  (call.enq = <<>> /\ call.offers = <<>>) <=> serving

C3_Witness ==
    /\ IsScaleCall /\ call.apply = {FALSE}
    /\ pa.active = "Unknown"
    /\ call.enq = <<ProgressDeadlineCfg + 10>> /\ call.offers = <<>>

\* C4: for an Inactive PA whose desired scale is 0 with scale-to-zero enabled,
\* a sync probe that does not report the activator present (absent, error, or
\* no service name) makes handleScaleToZero call Offer for the PA's probe URL
\* with period 1s, timeout 45s and the probe options, and scale return (0, nil)
\* with no PATCH and no enqueueCB, whatever Offer returns.
C4_AbsentActivatorStartsAsyncProbe ==
    (/\ IsScaleCall /\ cfg.EnableScaleToZero /\ pa.active = "False"
     /\ call.newScale = {0} /\ ProbeNotPresent(call)) =>
        /\ call.offers = <<[ctx |-> "Background",
                            target |-> paToProbeTarget(pa), arg |-> pa.name,
                            period |-> 1, timeout |-> 45, opts |-> probeOptions]>>
        /\ Len(call.offerRets) = 1
        /\ call.ret = 0 /\ call.apply = {FALSE}
        /\ call.err = "nil"
        /\ call.enq = <<>>
        /\ ~call.fetched /\ call.patches = <<>>

C4_Witness ==
    /\ IsScaleCall /\ cfg.EnableScaleToZero /\ pa.active = "False"
    /\ call.newScale = {0} /\ call.resp = {[code |-> 0, body |-> ""]}
    /\ call.offerRets = <<FALSE>> /\ call.ret = 0 /\ call.err = "nil"

\* C5 (at-most-one probe): no two running campaigns have the same probe
\* target; a target is in the in-flight set exactly while it has a campaign;
\* an Offer is admitted exactly when its target was not in flight, so Offers
\* made while the campaign runs return false and an Offer made after the
\* campaign's entry was removed is admitted again.
C5_AtMostOneProbe ==
    /\ \A i, j \in DOMAIN campaigns :
          campaigns[i].target = campaigns[j].target => i = j
    /\ keys = {campaigns[i].target : i \in DOMAIN campaigns}
    /\ call.kind = "offer" => (call.ret <=> call.target \notin call.before)
    /\ call.kind = "offer" /\ call.ret => call.target \in keys
    /\ (IsScaleCall /\ call.offerRets = <<TRUE>>) =>
          call.offers[1].target \in keys

C5_Witness ==
    /\ call.kind = "offer" /\ ~call.ret
    /\ Len(campaigns) = 1 /\ campaigns[1].phase = "polling"

\* C6: every admitted campaign ends (a polling campaign leads to its callback),
\* it calls back once (only a polling campaign calls back, and it is removed
\* only after it has called back), and the callback, on success and on failure
\* alike, re-enqueues the PA given as arg after reenqueuePeriod = 1s.
C6_CampaignReenqueues ==
    /\ (\E i \in DOMAIN campaigns : campaigns[i].phase = "polling")
          ~> (call.kind = "cb" /\ call.arg = pa.name /\ call.enq = <<1>>)
    /\ [](call.kind = "cb" => (call.arg = pa.name /\ call.enq = <<1>>))
    /\ [][\A i \in DOMAIN campaigns :
            /\ (campaigns[i].phase = "polling" /\ call'.kind = "cb"
                    /\ call' # call)
                  => (i \in DOMAIN campaigns' /\ campaigns'[i].phase = "called")
            /\ (campaigns[i].phase = "polling")
                  => (i \in DOMAIN campaigns'
                        /\ campaigns'[i].target = campaigns[i].target)
            /\ (campaigns[i].phase = "called")
                  => (call'.kind = "cb" => call' = call)]_vars

C6_Witness ==
    /\ call.kind = "cb" /\ ~call.success /\ call.enq = <<1>>
    /\ Len(campaigns) = 1 /\ campaigns[1].phase = "called"
    /\ campaigns[1].period = 1 /\ campaigns[1].timeout = 45

\* C7 as claimed (idempotent apply): scale called twice with the same inputs
\* and no other change issues at most one PATCH in total.
C7_AtMostOnePatch ==
    IsScaleCall =>
        \A ok \in BOOLEAN :
            Len(call.patches) + Len(SecondCall(ok).patches) <= 1

\* C7 as amended: scale called twice with the same inputs and no other change
\* issues at most one PATCH that succeeds; when the first call's PATCH
\* succeeded, or the first call needed none and returned no error, the second
\* call issues no PATCH.
C7_AtMostOneSuccessfulPatch ==
    IsScaleCall =>
        \A ok \in BOOLEAN :
            /\ Successes(call) + Successes(SecondCall(ok)) <= 1
            /\ call.err = "nil" => SecondCall(ok).patches = <<>>

C7_Witness ==
    /\ IsScaleCall /\ call.patches = <<2>> /\ call.err = "nil"
    /\ call.current = {1}
    /\ SecondCall(TRUE).patches = <<>> /\ SecondCall(TRUE).ret = 2

\* C8 (bounds): for 0 <= min, x >= 0 and max = 0 or min <= max, applyBounds
\* returns min if x < min, max if max # 0 and x > max, and x otherwise; the
\* result is >= min, is <= max when max # 0, and applying applyBounds to the
\* result gives the result again.
C8_Bounds ==
    LET pre == ab.min >= 0 /\ ab.x >= 0 /\ (ab.max = 0 \/ ab.min <= ab.max)
        r == ab.out[1]
    IN  (pre /\ Len(ab.out) >= 1) =>
            /\ ab.x < ab.min => r = ab.min
            /\ (ab.max # 0 /\ ab.x > ab.max) => r = ab.max
            /\ (ab.x >= ab.min /\ ~(ab.max # 0 /\ ab.x > ab.max)) => r = ab.x
            /\ r >= ab.min
            /\ ab.max # 0 => r <= ab.max
            /\ Len(ab.out) = 2 => ab.out[2] = r

C8_Witness ==
    /\ ab.min = 1 /\ ab.max = 2 /\ ab.x = 4 /\ ab.out = <<2, 2>>

\* C9: when the decision says apply and the target is fetched, scale issues
\* one PATCH exactly when the target's replica count (1 when spec.replicas is
\* absent) differs from the effective scale, that PATCH writes the effective
\* scale scale returns, and when they are equal scale returns the effective
\* scale and a nil error without patching.
C9_PatchIffDifferent ==
    (IsScaleCall /\ call.apply = {TRUE} /\ ps.found) =>
        IF call.patches # <<>> /\ call.err = "nil"
        THEN /\ call.patches = <<call.ret>>
             /\ ps.replicas = {call.ret}
             /\ call.current # {call.ret} /\ call.current # {}
        ELSE LET cur == IF ps.replicas = {} THEN 1 ELSE TheOne(ps.replicas)
             IN  /\ call.current = {cur}
                 /\ Len(call.patches) <= 1
                 /\ call.patches # <<>> <=> cur # call.ret
                 /\ call.patches # <<>> => call.patches = <<call.ret>>
                 /\ cur = call.ret => call.err = "nil"

C9_Witness ==
    /\ IsScaleCall /\ call.apply = {TRUE} /\ ps.found /\ ps.replicas = {}
    /\ call.ret = 1 /\ call.patches = <<>> /\ call.err = "nil"
    /\ call.desired = 1

\* C10: when desiredScale < 0 and the PA is not Activating, scale returns
\* (desiredScale, nil) and does nothing else: no clamping, no decision, no
\* probe, no Offer, no enqueueCB, no fetch of the target and no PATCH.
C10_MetricsNotReady ==
    (IsScaleCall /\ call.desired < 0 /\ pa.active # "Unknown") =>
        /\ call.ret = call.desired
        /\ call.err = "nil"
        /\ call.newScale = {} /\ call.apply = {}
        /\ call.gets = <<>> /\ call.resp = {}
        /\ call.offers = <<>> /\ call.offerRets = <<>>
        /\ call.enq = <<>>
        /\ ~call.fetched /\ call.current = {}
        /\ call.patches = <<>>

C10_Witness ==
    /\ IsScaleCall /\ call.desired = -1 /\ pa.active = "False"
    /\ cfg.EnableScaleToZero /\ pa.min = 1
    /\ call.ret = -1 /\ call.err = "nil" /\ call.patches = <<>>

\* C12 (ApplyError): an invocation that sends a PATCH sends exactly one, for
\* the scale it returns; when the API server rejects the PATCH the invocation
\* returns that scale with the error "failed to apply scale ..." that wraps
\* the server's error, and the target keeps its replicas; when the PATCH
\* succeeds the invocation returns no error.
C12_ApplyError ==
    (IsScaleCall /\ call.patches # <<>>) =>
        /\ Len(call.patches) = 1
        /\ call.patches[1] = call.ret
        /\ call.patchOK = {FALSE} =>
              (call.err = "failed to apply scale" /\ ps.replicas # {call.ret})
        /\ call.patchOK = {TRUE} =>
              (call.err = "nil" /\ ps.replicas = {call.ret})

C12_Witness ==
    /\ IsScaleCall
    /\ call.patches = <<0>>
    /\ call.patchOK = {FALSE}
    /\ call.err = "failed to apply scale"
    /\ call.ret = 0

\* C13 (ScaleTargetResolutionError): an invocation that looks the scale
\* target up while the scaleTargetRef does not parse or the target is not in
\* the informer's cache returns the error "failed to get scale target ..."
\* and sends no PATCH; the target is left as it was.
C13_TargetResolutionError ==
    (IsScaleCall /\ call.fetched /\ (~pa.refValid \/ ~ps.found)) =>
        /\ call.err = "failed to get scale target"
        /\ call.patches = <<>>
        /\ call.current = {}

C13_Witness ==
    /\ IsScaleCall
    /\ call.fetched
    /\ ~pa.refValid
    /\ ps.found
    /\ call.err = "failed to get scale target"

\* C14 (ConfigMissing): every invocation of scale on a context that carries
\* no config returns a non-nil error to the reconciler and sends no PATCH,
\* whatever the desired scale and the PA's state.
C14_ConfigMissingSurfaces ==
    (IsScaleCall /\ cfg = NoConfig) =>
        /\ call.err \notin {"nil", "panic"}
        /\ call.patches = <<>>

\* C15 (activatorProbe): the synchronous probe, which the Inactive branch
\* runs, makes no GET and reports the activator absent when the PA has no
\* service name; otherwise it makes exactly one GET, to
\* http://{service}.{namespace}:{port}/healthz, and reports the activator
\* present exactly when the answer is HTTP 200 with the activator's name as
\* its body (an absent activator is what makes the branch call Offer).
C15_ActivatorProbe ==
    (IsScaleCall /\ call.newScale = {0} /\ cfg.EnableScaleToZero
                 /\ pa.active = "False") =>
        IF pa.serviceName = ""
        THEN call.gets = <<>> /\ call.resp = {} /\ call.offers # <<>>
        ELSE /\ call.gets = <<[scheme |-> "http", svc |-> pa.serviceName,
                                ns |-> pa.namespace, port |-> 80,
                                path |-> "/healthz"]>>
             /\ call.resp # {}
             /\ call.offers = <<>> <=>
                    RespOf(call) = [code |-> 200, body |-> "activator"]

C15_Witness ==
    /\ IsScaleCall
    /\ pa.active = "False"
    /\ pa.serviceName = "svc"
    /\ Len(call.gets) = 1
    /\ call.resp = {[code |-> 200, body |-> "activator"]}
    /\ call.offers = <<>>

\* C16 (no probe without a service name): an invocation of scale on a PA
\* whose status.serviceName is empty starts no activator probe: it makes no
\* synchronous GET and hands nothing to probeManager.Offer.
C16_NoProbeWithoutServiceName ==
    (IsScaleCall /\ pa.serviceName = "") =>
        /\ call.gets = <<>>
        /\ call.offers = <<>>

\* C17 (fast path): when the clamped desired scale handed to handleScaleToZero
\* is not 0, the decision is (that scale, apply) whatever the config (even a
\* context without one), the PA's condition and the SKS are, and the handler
\* makes no GET, no Offer and no enqueueCB call; scale goes on to the target.
C17_FastPath ==
    (IsScaleCall /\ call.newScale # {} /\ call.newScale # {0}) =>
        /\ call.ret = TheOne(call.newScale)
        /\ call.apply = {TRUE}
        /\ call.enq = <<>>
        /\ call.gets = <<>>
        /\ call.resp = {}
        /\ call.offers = <<>>
        /\ call.err # "panic"
        /\ call.fetched

C17_Witness ==
    /\ IsScaleCall
    /\ cfg = NoConfig
    /\ pa.active = "False"
    /\ call.newScale = {MaxScale}
    /\ call.ret = MaxScale
    /\ call.apply = {TRUE}
    /\ call.patches = <<MaxScale>>

\* C18 (Activating, timed out): with scale-to-zero enabled and a desired
\* scale of 0, a PA that has been Activating for at least the activation
\* timeout (progress deadline + 10s) gets the decision (0, apply) with no GET,
\* no Offer and no enqueueCB call, and scale PATCHes the target to 0 unless
\* it is at 0 already.
C18_ActivatingTimedOut ==
    (IsScaleCall /\ cfg.EnableScaleToZero /\ pa.active = "Unknown"
                 /\ call.desired = 0 /\ call.newScale = {0}
                 /\ pa.age >= cfg.ProgressDeadline + 10) =>
        /\ call.ret = 0
        /\ call.apply = {TRUE}
        /\ call.enq = <<>>
        /\ call.gets = <<>>
        /\ call.offers = <<>>
        /\ call.fetched
        /\ call.current # {} =>
              call.patches = IF call.current = {0} THEN <<>> ELSE <<0>>

C18_Witness ==
    /\ IsScaleCall
    /\ pa.active = "Unknown"
    /\ pa.age = cfg.ProgressDeadline + 10
    /\ call.desired = 0
    /\ call.apply = {TRUE}
    /\ call.current = {1}
    /\ call.patches = <<0>>
    /\ ps.replicas = {0}

\* C19 (Activating, not timed out): with scale-to-zero enabled and a clamped
\* desired scale of 0, a PA that has been Activating for less than the
\* activation timeout gets exactly one enqueueCB call, whose delay is the
\* whole activation timeout (progress deadline + 10s), no GET and no Offer;
\* scale returns (-1, nil) and neither looks the target up nor PATCHes it.
C19_ActivatingWaits ==
    (IsScaleCall /\ cfg.EnableScaleToZero /\ pa.active = "Unknown"
                 /\ call.newScale = {0}
                 /\ pa.age < cfg.ProgressDeadline + 10) =>
        /\ call.ret = -1
        /\ call.err = "nil"
        /\ call.apply = {FALSE}
        /\ call.enq = <<cfg.ProgressDeadline + 10>>
        /\ call.gets = <<>>
        /\ call.offers = <<>>
        /\ ~call.fetched
        /\ call.patches = <<>>

C19_Witness ==
    /\ IsScaleCall
    /\ pa.active = "Unknown"
    /\ pa.age = cfg.ProgressDeadline + 10 - 1
    /\ call.desired = 0
    /\ call.ret = -1
    /\ Len(call.enq) = 1

\* C20 (Active, stable window elapsed): with scale-to-zero enabled and a
\* clamped desired scale of 0, a PA that has been Active for at least its
\* stable window (its own, else the config's) gets the decision (0, do not
\* apply) with no GET and no Offer, and one enqueueCB call, with delay 3s,
\* exactly when sks.spec.mode is Proxy; scale returns (0, nil) without a
\* lookup or a PATCH.
C20_ActiveWindowElapsed ==
    (IsScaleCall /\ cfg # NoConfig /\ cfg.EnableScaleToZero
                 /\ pa.active = "True" /\ call.newScale = {0}
                 /\ pa.age >= (IF pa.window # {} THEN TheOne(pa.window)
                                ELSE cfg.StableWindow)) =>
        /\ call.ret = 0
        /\ call.err = "nil"
        /\ call.apply = {FALSE}
        /\ call.gets = <<>>
        /\ call.offers = <<>>
        /\ call.enq = IF sks.mode = "Proxy" THEN <<3>> ELSE <<>>
        /\ ~call.fetched
        /\ call.patches = <<>>

C20_Witness ==
    /\ IsScaleCall
    /\ cfg # NoConfig
    /\ pa.active = "True"
    /\ pa.window # {}
    /\ pa.age < cfg.StableWindow
    /\ sks.mode = "Proxy"
    /\ call.ret = 0
    /\ call.apply = {FALSE}
    /\ call.enq = <<3>>

\* The scale the loop's steady desired scale is clamped to.
LiveGoal == applyBounds(pa.min, pa.max, loop.desired)

C21_ActiveInsideWindow ==
    (IsScaleCall /\ cfg # NoConfig /\ cfg.EnableScaleToZero
                 /\ pa.active = "True" /\ call.newScale = {0}
                 /\ pa.age < (IF pa.window # {} THEN TheOne(pa.window)
                               ELSE cfg.StableWindow)) =>
        /\ call.ret = 1
        /\ call.apply = {TRUE}
        /\ call.enq = <<(IF pa.window # {} THEN TheOne(pa.window)
                          ELSE cfg.StableWindow) - pa.age>>
        /\ call.gets = <<>>
        /\ call.offers = <<>>
        /\ call.fetched
        /\ call.current # {} =>
              call.patches = IF call.current = {1} THEN <<>> ELSE <<1>>

C21_Witness ==
    /\ IsScaleCall
    /\ cfg # NoConfig
    /\ pa.active = "True"
    /\ pa.window = {}
    /\ pa.age = 0
    /\ call.desired = 0
    /\ call.ret = 1
    /\ call.enq = <<cfg.StableWindow>>
    /\ call.current = {MaxScale}
    /\ call.patches = <<1>>

\* C22 (Inactive, activator present, grace satisfied): with scale-to-zero
\* enabled and a clamped desired scale of 0, for an Inactive PA whose
\* synchronous probe reports the activator, the decision is (0, apply) with
\* no enqueueCB call and no Offer whenever the PA has been Inactive for at
\* least the grace period or the SKS has proxied for at least the grace
\* period; scale PATCHes the target to 0 unless it is at 0 already.
C22_InactiveGraceSatisfied ==
    (IsScaleCall /\ cfg # NoConfig /\ cfg.EnableScaleToZero
                 /\ pa.active = "False" /\ call.newScale = {0}
                 /\ call.resp = {[code |-> 200, body |-> "activator"]}
                 /\ (\/ pa.age >= cfg.ScaleToZeroGracePeriod
                     \/ cfg.ScaleToZeroGracePeriod - sks.proxyFor <= 0)) =>
        /\ call.ret = 0
        /\ call.apply = {TRUE}
        /\ call.enq = <<>>
        /\ call.offers = <<>>
        /\ call.fetched
        /\ call.current # {} =>
              call.patches = IF call.current = {0} THEN <<>> ELSE <<0>>

C22_Witness ==
    /\ IsScaleCall
    /\ cfg # NoConfig
    /\ pa.active = "False"
    /\ pa.age < cfg.ScaleToZeroGracePeriod
    /\ sks.proxyFor >= cfg.ScaleToZeroGracePeriod
    /\ call.resp = {[code |-> 200, body |-> "activator"]}
    /\ call.apply = {TRUE}
    /\ call.patches = <<0>>
    /\ ps.replicas = {0}

\* C23 (Inactive, activator present, grace not satisfied): in the same case
\* but with the PA Inactive for less than the grace period and the SKS
\* proxying for less than the grace period, there is exactly one enqueueCB
\* call, with delay grace - proxyFor, no Offer, and the decision is (0, do
\* not apply): scale returns (0, nil) without a lookup or a PATCH.
C23_InactiveGraceNotSatisfied ==
    (IsScaleCall /\ cfg # NoConfig /\ cfg.EnableScaleToZero
                 /\ pa.active = "False" /\ call.newScale = {0}
                 /\ call.resp = {[code |-> 200, body |-> "activator"]}
                 /\ pa.age < cfg.ScaleToZeroGracePeriod
                 /\ sks.proxyFor < cfg.ScaleToZeroGracePeriod) =>
        /\ call.ret = 0
        /\ call.err = "nil"
        /\ call.apply = {FALSE}
        /\ call.enq = <<cfg.ScaleToZeroGracePeriod - sks.proxyFor>>
        /\ call.offers = <<>>
        /\ ~call.fetched
        /\ call.patches = <<>>

C23_Witness ==
    /\ IsScaleCall
    /\ cfg # NoConfig
    /\ pa.active = "False"
    /\ sks.proxyFor > 0
    /\ call.resp = {[code |-> 200, body |-> "activator"]}
    /\ call.apply = {FALSE}
    /\ call.enq = <<cfg.ScaleToZeroGracePeriod - sks.proxyFor>>

\* C24 as stated: an invocation with a negative desired scale on an
\* Activating PA returns early: the value is returned unclamped, the
\* scale-to-zero decision does not run, nothing is scheduled, probed or
\* patched.
C24_NegativeOnActivatingReturnsEarly ==
    (IsScaleCall /\ call.desired < 0 /\ pa.active = "Unknown") =>
        /\ call.ret = call.desired
        /\ call.newScale = {}
        /\ call.apply = {}
        /\ call.enq = <<>>
        /\ call.offers = <<>>
        /\ call.patches = <<>>

\* C24 (negative desired scale on an Activating PA): scale does not return
\* early: it clamps the value to the PA's bounds, which gives minScale, and
\* runs the scale-to-zero decision on the clamped value.  With minScale 0 and
\* scale-to-zero enabled that is the Activating branch: one enqueueCB call
\* with the activation timeout and (-1, nil) before the timeout, the decision
\* (0, apply) and a lookup of the target from the timeout on.  The early
\* return is taken exactly when the desired scale is negative and the PA is
\* not Activating.
C24_NegativeOnActivatingIsDecided ==
    /\ (IsScaleCall /\ call.desired < 0 /\ pa.active = "Unknown") =>
          /\ call.newScale = {pa.min}
          /\ call.apply # {}
          /\ (pa.min = 0 /\ cfg.EnableScaleToZero) =>
                IF pa.age >= cfg.ProgressDeadline + 10
                THEN call.ret = 0 /\ call.apply = {TRUE} /\ call.fetched
                ELSE /\ call.ret = -1
                     /\ call.apply = {FALSE}
                     /\ call.enq = <<cfg.ProgressDeadline + 10>>
    /\ (IsScaleCall /\ call.desired < 0 /\ pa.active # "Unknown") =>
          call.newScale = {} /\ call.ret = call.desired

C24_Witness ==
    /\ IsScaleCall
    /\ call.desired = -1
    /\ pa.active = "Unknown"
    /\ pa.min = 0
    /\ cfg.EnableScaleToZero
    /\ call.newScale = {0}
    /\ call.ret = 0
    /\ call.patches = <<0>>

\* C25 (read-only inputs): a step that is an invocation of scale leaves the
\* config, the PA and the SKS as they were, and leaves the informer's
\* PodScalable as it was unless the API server accepted the invocation's
\* PATCH, in which case the replica count is the patched one: a rejected
\* PATCH leaves no trace on the cached object.
C25_ReadOnlyInputs ==
    [][call'.kind = "scale" =>
         /\ cfg' = cfg
         /\ pa' = pa
         /\ sks' = sks
         /\ \/ ps' = ps
            \/ /\ call'.patchOK = {TRUE}
               /\ ps' = [ps EXCEPT !.replicas = {call'.patches[1]}]]_vars

C25_Witness ==
    /\ IsScaleCall
    /\ call.patches = <<1>>
    /\ call.patchOK = {FALSE}
    /\ call.current = {0}
    /\ ps.replicas = {0}
    /\ pa.active = "True"

\* C26 (cancellation): once the parent context of a polling campaign is
\* cancelled, no callback, hence no re-enqueue, is delivered for that
\* campaign: it leaves the in-flight set without calling back.  A campaign
\* the scaler starts has context.Background() as its parent and is never
\* cancelled.
C26_CancelSuppressesCallback ==
    /\ [](\A i \in DOMAIN campaigns :
            campaigns[i].ctx = "Background" => ~campaigns[i].cancelled)
    /\ [][\A i \in DOMAIN campaigns :
            (campaigns[i].cancelled /\ campaigns[i].phase = "polling")
                => ~(call'.kind = "cb" /\ call' # call)]_vars

C26_Witness ==
    /\ call.kind = "cancel"
    /\ campaigns = <<>>
    /\ keys = {}

\* C27 (zero only when safe): an invocation sends a PATCH to 0 replicas only
\* with scale-to-zero enabled and either (a) the PA Activating for at least
\* the activation timeout, or (b) the PA Inactive, this invocation's own
\* synchronous probe reporting the activator, and the PA Inactive for at
\* least the grace period or the SKS proxying for at least the grace period.
\* No PATCH to 0 is sent for an Active PA, nor by an invocation that made no
\* synchronous probe of its own on an Inactive PA.
C27_ZeroOnlyWhenSafe ==
    (IsScaleCall /\ call.patches # <<>> /\ call.patches[1] = 0) =>
        /\ cfg.EnableScaleToZero
        /\ pa.active # "True"
        /\ pa.active = "Unknown" => pa.age >= cfg.ProgressDeadline + 10
        /\ pa.active = "False" =>
              /\ Len(call.gets) = 1
              /\ call.resp = {[code |-> 200, body |-> "activator"]}
              /\ \/ pa.age >= cfg.ScaleToZeroGracePeriod
                 \/ sks.proxyFor >= cfg.ScaleToZeroGracePeriod

C27_Witness ==
    /\ IsScaleCall
    /\ call.patches = <<0>>
    /\ pa.active = "False"
    /\ pa.age >= cfg.ScaleToZeroGracePeriod
    /\ sks.mode = "Serve"
    /\ sks.proxyFor = 0
    /\ call.resp = {[code |-> 200, body |-> "activator"]}
    /\ keys # {}

\* C28 (applied scale within bounds): for a PA with valid bounds (0 <= min,
\* and max = 0 or min <= max) every replica count scale writes by PATCH,
\* the floor 1 and the value reached from a negative desired scale on an
\* Activating PA included, is at least 0, at least min and, when max is not
\* 0, at most max.
C28_AppliedScaleWithinBounds ==
    (IsScaleCall /\ call.patches # <<>>) =>
        /\ call.patches[1] >= 0
        /\ call.patches[1] >= pa.min
        /\ pa.max # 0 => call.patches[1] <= pa.max

C28_Witness ==
    /\ IsScaleCall
    /\ call.desired = 0
    /\ pa.min = 0
    /\ pa.max = 1
    /\ ~cfg.EnableScaleToZero
    /\ call.newScale = {0}
    /\ call.patches = <<1>>

\* The PA e seconds later, its condition unchanged.
Later(p, e) == [p EXCEPT !.age = @ + e]

\* The SKS e seconds later, its mode unchanged: the time it has proxied has
\* grown by e, or is still 0 when it is not proxying.
LaterSKSs(s, e) ==
    {[s EXCEPT !.proxyFor = @ + e]} \cup (IF s.proxyFor = 0 THEN {s} ELSE {})

\* C29 (the re-enqueue delay is sufficient): after an invocation with a
\* desired scale of 0 that took a timed waiting branch (Activating before the
\* timeout; Active inside the stable window; Inactive with the activator
\* present and the grace period not over), an invocation no earlier than the
\* scheduled delay, with the same config, the same condition of the PA, the
\* same SKS mode and the same probe answer, does not wait again: Activating
\* gets (0, apply), Active gets the deactivation signal (0, do not apply),
\* Inactive gets (0, apply).
C29_DelaySufficient ==
    (IsScaleCall /\ cfg # NoConfig /\ cfg.EnableScaleToZero
                 /\ call.desired = 0 /\ call.newScale = {0}
                 /\ Len(call.enq) = 1
                 /\ (pa.active = "True" => call.apply = {TRUE})) =>
        \A e \in call.enq[1]..(call.enq[1] + 1) :
            \A s2 \in LaterSKSs(sks, e) :
                LET r == scale(cfg, Later(pa, e), s2, ps, 0, RespOf(call), TRUE)
                IN  /\ r.ret = 0
                    /\ r.apply = {pa.active # "True"}
                    /\ pa.active # "True" => r.enq = <<>>

C29_Witness ==
    /\ IsScaleCall
    /\ cfg # NoConfig
    /\ call.desired = 0
    /\ pa.active = "False"
    /\ sks.proxyFor > 0
    /\ call.apply = {FALSE}
    /\ call.enq = <<1>>
    /\ scale(cfg, Later(pa, 1), [sks EXCEPT !.proxyFor = @ + 1], ps, 0,
             RespOf(call), TRUE).apply = {TRUE}

\* C30 (re-enqueue delays): in one invocation of scale, enqueueCB is called at
\* most once, every delay passed to it is strictly positive, and enqueueCB
\* and probeManager.Offer are never both called.
C30_EnqueueDelays ==
    IsScaleCall =>
        /\ Len(call.enq) <= 1
        /\ \A i \in 1..Len(call.enq) : call.enq[i] > 0
        /\ ~(call.enq # <<>> /\ call.offers # <<>>)

C30_Witness ==
    /\ IsScaleCall
    /\ call.desired = 0
    /\ pa.active = "True"
    /\ pa.age = StableWindowCfg - 1
    /\ call.enq = <<1>>
    /\ call.offers = <<>>

IsApplyCall == call.kind = "applyScale"

\* C31 as stated: applyScale, called with a PodScalable whose spec.replicas
\* already equals desiredScale, submits no PATCH request.
C31_ApplyScaleNoOpWhenEqual ==
    (IsApplyCall /\ call.ps.replicas = {call.desired}) => call.patches = <<>>

\* C31 (amended): applyScale does not compare the counts.  Called with a
\* valid scaleTargetRef and a PodScalable whose spec.replicas already equals
\* desiredScale it submits one PATCH request, whose JSON patch has no
\* operation and leaves the target as it was; the PATCH is skipped one level
\* up, by scale, which submits none when the fetched count (absent counts as
\* 1) equals the effective scale.
C31_ScaleSkipsEqualNotApplyScale ==
    /\ (IsApplyCall /\ pa.refValid /\ call.ps.replicas = {call.desired}) =>
           /\ call.patches = <<call.desired>>
           /\ call.doc = <<>>
           /\ ps = call.ps
    /\ (IsScaleCall /\ call.fetched /\ call.current = {call.ret}) =>
           /\ call.patches = <<>>
           /\ call.err = "nil"

C31_Witness ==
    /\ IsApplyCall
    /\ pa.refValid
    /\ call.desired = MaxScale
    /\ call.ps.replicas = {MaxScale}
    /\ call.patches = <<MaxScale>>
    /\ call.patchOK = {TRUE}
    /\ ps.replicas = {MaxScale}

====
